---- MODULE Spec2Model ----
(***************************************************************************)
(* Model of distilabel/steps/generators/huggingface.py: the three dataset  *)
(* loading steps (LoadDataFromHub, LoadDataFromFileSystem,                 *)
(* LoadDataFromDisk), their load() methods, the batch generator process(), *)
(* the row transposition _transform_batch() and the path classifier        *)
(* _prepare_data_files().                                                  *)
(*                                                                         *)
(* A dataset handle holds a prefix of the source's rows (load_dataset      *)
(* returns all of them, select(range(n)) keeps the first n), so a handle   *)
(* is modelled by its row count; row i of the handle is row i of the       *)
(* source (0-based).                                                       *)
(***************************************************************************)
EXTENDS Integers, Sequences, FiniteSets, TLC

VARIABLES
    kind,               \* which step class: "hub", "fs" or "disk"
    streaming,          \* field streaming
    config,             \* field config ("<None>" when not given)
    split,              \* field split ("<None>" when not given)
    is_distiset,        \* field is_distiset (disk)
    reqLimit,           \* num_examples as given to the constructor (None when not given)
    total,              \* rows held by the source
    batch_size,         \* field batch_size
    data_path,          \* the filesystem object data_files points to (fs)
    reqFiletype,        \* filetype as given to the constructor ("<None>" when not given)
    metaOK,             \* whether get_dataset_infos answers (hub)
    openOK,             \* whether load_dataset / load_from_disk can open the source
    pc,                 \* "init", "loaded", "failed", "running", "exhausted",
                        \* "classified", "transformed"
    err,                \* the exception that ended the call, "" when none
    dataset,            \* field _dataset: row count of the handle, None when unset,
                        \* DistisetHandle when it holds a Distiset
    num_examples,       \* field num_examples
    filetype,           \* field filetype
    openedWith,         \* first argument of the load_dataset call that made _dataset
    prepared,           \* what _prepare_data_files returned
    outputs,            \* field outputs
    offset,             \* argument of the running process() call
    batch_num,          \* process(): index of the next batch the iterator hands out
    num_returned_rows,  \* process(): local num_returned_rows
    yielded,            \* process(): the (rows, last) pairs yielded so far
    tbatch,             \* argument of a direct _transform_batch call
    tresult             \* what that call returned or raised

vars == <<kind, streaming, config, split, is_distiset, reqLimit, total, batch_size, data_path,
          reqFiletype, metaOK, openOK, pc, err, dataset, num_examples, filetype,
          openedWith, prepared, outputs, offset, batch_num, num_returned_rows,
          yielded, tbatch, tresult>>

inputs == <<kind, streaming, config, split, is_distiset, reqLimit, total, batch_size, data_path,
            reqFiletype, metaOK, openOK>>

(***************************************************************************)
(* Bounds of the model.                                                    *)
(***************************************************************************)
MaxRows == 10
MaxBatch == 3
MaxChildren == 2
MaxSub == 2
MaxCols == 2
MaxColLen == 3
MaxVal == 1

\* Python's None for the Optional[int] field num_examples and for _dataset.
None == -1
NoStr == "<None>"

Min(a, b) == IF a <= b THEN a ELSE b

\* Python truthiness of an Optional[int]: None and 0 are both false.
Truthy(n) == n # None /\ n # 0

\* The columns of every source of the model, in the handle's column order.
Columns == <<"a", "b">>

(***************************************************************************)
(* datasets.Dataset.select(range(n)) on a handle of len rows: an empty     *)
(* handle is returned as it is, an index beyond the handle raises          *)
(* IndexError, otherwise the first n rows are kept.                        *)
(***************************************************************************)
SelectRaises(len, n) == len > 0 /\ n > len
Select(len, n) == IF len = 0 THEN 0 ELSE n

(***************************************************************************)
(* Filesystem objects.  A name is [stem, ext] (ext without the dot, ""     *)
(* when the name has no suffix); str(path) is the sequence of the names    *)
(* from data_path down.  An object has a type: "file", "dir", or "other"   *)
(* (is_file() and is_dir() both false: a missing path, a broken link).     *)
(* children is the iterdir() order.                                        *)
(***************************************************************************)
Stems == <<"p", "q", "r", "s">>
FileExts == {"json", "jsonl", "csv"}

Name(s, e) == [stem |-> s, ext |-> e]
Leaf(s, e, t) == [name |-> Name(s, e), type |-> t]
Node(s, e, t, ch) == [name |-> Name(s, e), type |-> t, children |-> ch]

LeafChoices == {[type |-> "file", ext |-> e] : e \in FileExts}
                 \cup {[type |-> "dir", ext |-> ""]}

\* The listings of a sub-directory: up to n entries.
LeafSeqs(n) ==
    UNION {{[i \in 1..m |-> Leaf(Stems[i], ch[i].ext, ch[i].type)] :
              ch \in [1..m -> LeafChoices]} : m \in 0..n}

MidChoices(n) ==
    {[type |-> "file", ext |-> e, children |-> <<>>] : e \in FileExts}
      \cup {[type |-> "other", ext |-> "", children |-> <<>>]}
      \cup {[type |-> "dir", ext |-> "", children |-> ls] : ls \in LeafSeqs(n)}

\* The listings of data_path: up to c children, each sub-directory of up to
\* n entries.
MidSeqs(c, n) ==
    UNION {{[i \in 1..m |-> Node(Stems[i], ch[i].ext, ch[i].type, ch[i].children)] :
              ch \in [1..m -> MidChoices(n)]} : m \in 0..c}

\* Every data_path the classifier is tried on.
AllPaths(c, n) ==
    {Node("data", e, "file", <<>>) : e \in FileExts \cup {"txtr", ""}}
      \cup {Node("data", "", "other", <<>>)}
      \cup {Node("data", "", "dir", ms) : ms \in MidSeqs(c, n)}

\* The data_path values the load()/process() runs use.
LoadPaths ==
    { Node("data", "jsonl", "file", <<>>),
      Node("data", "txtr", "file", <<>>),
      Node("data", "", "other", <<>>),
      Node("data", "", "dir", <<Node("p", "csv", "file", <<>>),
                                 Node("q", "csv", "file", <<>>)>>),
      Node("data", "", "dir", <<Node("p", "", "dir", <<Leaf("p", "json", "file")>>),
                                 Node("q", "", "dir", <<Leaf("p", "json", "file")>>)>>) }

(***************************************************************************)
(* LoadDataFromFileSystem._prepare_data_files                              *)
(***************************************************************************)
\* get_filetype: the suffix without its dot, "jsonl" read as "json".
get_filetype(p) ==
    LET e == p[Len(p)].ext
    IN  IF e = "jsonl" THEN "json" ELSE e

\* str(file) for every entry a sub-directory lists.
SubPaths(base, leaves) ==
    [j \in 1..Len(leaves) |-> Append(base, leaves[j].name)]

\* What one child of the directory adds to file_sequence.
SequencePart(base, k) ==
    IF k.type = "file" THEN <<Append(base, k.name)>>
    ELSE IF k.type = "dir" THEN SubPaths(Append(base, k.name), k.children)
    ELSE <<>>

\* What one child of the directory adds to file_map (a defaultdict: a key
\* exists once something was appended under it).
MapPart(base, k) ==
    IF k.type = "dir" /\ k.children # <<>>
    THEN <<[key |-> Append(base, k.name),
            files |-> SubPaths(Append(base, k.name), k.children)]>>
    ELSE <<>>

RECURSIVE file_sequence(_, _)
file_sequence(base, kids) ==
    IF kids = <<>> THEN <<>>
    ELSE SequencePart(base, Head(kids)) \o file_sequence(base, Tail(kids))

RECURSIVE file_map(_, _)
file_map(base, kids) ==
    IF kids = <<>> THEN <<>>
    ELSE MapPart(base, Head(kids)) \o file_map(base, Tail(kids))

Prepared(r, e, sh, s, m, ft) ==
    [raised |-> r, err |-> e, shape |-> sh, seq |-> s, map |-> m, filetype |-> ft]

NotPrepared == Prepared(FALSE, "", "unset", <<>>, <<>>, NoStr)

\* shape "str": data_files is the path itself (seq holds it); "list":
\* data_files is file_sequence; "dict": data_files is file_map.
prepare_data_files(path) ==
    LET base == <<path.name>>
        fs   == file_sequence(base, path.children)
        fm   == file_map(base, path.children)
    IN  IF path.type = "file"
        THEN Prepared(FALSE, "", "str", <<base>>, <<>>, get_filetype(base))
        ELSE IF path.type = "dir"
        THEN IF fs # <<>>
             THEN Prepared(FALSE, "", "list", fs, fm, get_filetype(fs[1]))
             ELSE IF fm # <<>>
             THEN Prepared(FALSE, "", "dict", fs, fm, get_filetype(fm[1].files[1]))
             ELSE Prepared(TRUE, "IndexError", "unset", <<>>, <<>>, NoStr)
        ELSE Prepared(TRUE, "UnboundLocalError", "unset", <<>>, <<>>, NoStr)

(***************************************************************************)
(* LoadDataFromHub._transform_batch.  A columnar batch is the sequence of  *)
(* its (column, values) items in dict order; a row is the sequence of its  *)
(* (column, value) items in the same order.                                *)
(***************************************************************************)
Transformed(r, e, rs) == [raised |-> r, err |-> e, rows |-> rs]

NotTransformed == Transformed(FALSE, "unset", <<>>)

\* rows[i] = {col: values[i] for col, values in batch.items()}
RowOf(batch, i) ==
    [k \in 1..Len(batch) |-> [col |-> batch[k].col, value |-> batch[k].values[i]]]

\* length is the first column's length; values[i] raises IndexError on a
\* column shorter than that, and the values of a longer column beyond it
\* are never read.
transform_batch(batch) ==
    IF batch = <<>> THEN Transformed(TRUE, "StopIteration", <<>>)
    ELSE LET length == Len(batch[1].values)
         IN  IF \E k \in 1..Len(batch) : Len(batch[k].values) < length
             THEN Transformed(TRUE, "IndexError", <<>>)
             ELSE Transformed(FALSE, "", [i \in 1..length |-> RowOf(batch, i)])

\* The columnar batches _transform_batch is tried on directly.
ValueSeqs(l, v) == UNION {[1..n -> 0..v] : n \in 0..l}
ColNames == <<"a", "b", "c", "d">>
Batches(c, l, v) ==
    UNION {{[k \in 1..m |-> [col |-> ColNames[k], values |-> vs[k]]] :
              vs \in [1..m -> ValueSeqs(l, v)]} : m \in 0..c}

(***************************************************************************)
(* The handle's iterator: batch number b of iter(batch_size) holds the     *)
(* rows b*batch_size .. min((b+1)*batch_size, len) - 1 of the handle, every*)
(* column carrying the row's values (here: the row's source index).        *)
(***************************************************************************)
HasBatch(len, b) == b * batch_size < len

BatchRows(len, b) == Min(batch_size, len - b * batch_size)

ReadBatch(len, b) ==
    [k \in 1..Len(Columns) |->
        [col |-> Columns[k],
         values |-> [j \in 1..BatchRows(len, b) |-> b * batch_size + j - 1]]]

\* The source index a yielded row carries.
RowIndex(row) == row[1].value

(***************************************************************************)
(* LoadDataFromHub._dataset_info, _get_dataset_num_examples,               *)
(* _get_dataset_columns                                                    *)
(***************************************************************************)
Info(r, e, sh) == [raised |-> r, err |-> e, shape |-> sh]

\* get_dataset_infos answers with a dict keyed by config ("dict").  When it
\* raises, the dataset is loaded: with a config, ds[config] looks up a
\* column of that name in the loaded split and raises KeyError; without,
\* ds.info is returned: one DatasetInfo, not a dict of them ("info").
dataset_info ==
    IF metaOK THEN Info(FALSE, "", "dict")
    ELSE IF ~openOK THEN Info(TRUE, "LoadError", "none")
    ELSE IF config # NoStr THEN Info(TRUE, "KeyError", "none")
    ELSE Info(FALSE, "", "info")

\* self._dataset_info[config or "default"]: a DatasetInfo is not
\* subscriptable (TypeError).
InfoLookupRaises(info) == info.raised \/ info.shape # "dict"

InfoLookupErr(info) == IF info.raised THEN info.err ELSE "TypeError"

get_dataset_num_examples == total

get_dataset_columns == Columns

(***************************************************************************)
(* Initial states: a step as constructed, load() not yet called.           *)
(***************************************************************************)
Limits == {None} \cup 0..(MaxRows + 1)

Idle ==
    /\ pc = "init"
    /\ err = ""
    /\ dataset = None
    /\ num_examples = reqLimit
    /\ filetype = reqFiletype
    /\ openedWith = NoStr
    /\ prepared = NotPrepared
    /\ outputs = <<>>
    /\ offset = 0
    /\ batch_num = 0
    /\ num_returned_rows = 0
    /\ yielded = <<>>
    /\ tbatch = <<>>
    /\ tresult = NotTransformed

InitHub ==
    /\ kind = "hub"
    /\ config \in {NoStr, "cfg"}
    /\ split = "train"
    /\ is_distiset = FALSE
    /\ metaOK \in BOOLEAN
    /\ openOK \in BOOLEAN
    /\ data_path = Node("data", "", "other", <<>>)
    /\ reqFiletype = NoStr

InitFS ==
    /\ kind = "fs"
    /\ config = NoStr
    /\ split = "train"
    /\ is_distiset = FALSE
    /\ metaOK = TRUE
    /\ openOK \in BOOLEAN
    /\ data_path \in LoadPaths
    /\ reqFiletype \in {NoStr, "csv", "json"}

\* The names a snapshot on disk holds: every config and split asked for
\* except "absent".
InitDisk ==
    /\ kind = "disk"
    /\ config \in {NoStr, "cfg", "absent"}
    /\ split \in {NoStr, "train", "absent"}
    /\ is_distiset \in BOOLEAN
    /\ metaOK = TRUE
    /\ openOK \in BOOLEAN
    /\ data_path = Node("data", "", "other", <<>>)
    /\ reqFiletype = NoStr

Init ==
    /\ streaming \in BOOLEAN
    /\ reqLimit \in Limits
    /\ total \in 0..MaxRows
    /\ batch_size \in 1..MaxBatch
    /\ InitHub \/ InitFS \/ InitDisk
    /\ Idle

(***************************************************************************)
(* load()                                                                  *)
(***************************************************************************)
Fail(e) == pc' = "failed" /\ err' = e

procVars == <<offset, batch_num, num_returned_rows, yielded>>

\* LoadDataFromHub.load
HubLoad ==
    /\ kind = "hub"
    /\ pc \in {"init", "loaded"}
    /\ IF dataset # None
       THEN \* a handle is already set: only the columns are read again
            /\ outputs' = get_dataset_columns
            /\ UNCHANGED <<pc, err, dataset, num_examples, openedWith>>
       ELSE IF ~openOK
       THEN \* load_dataset raises
            /\ Fail("LoadError")
            /\ UNCHANGED <<dataset, num_examples, openedWith, outputs>>
       ELSE IF InfoLookupRaises(dataset_info)
       THEN \* _get_dataset_num_examples raises, _dataset is already set
            /\ Fail(InfoLookupErr(dataset_info))
            /\ dataset' = total
            /\ openedWith' = "hub"
            /\ UNCHANGED <<num_examples, outputs>>
       ELSE LET n == IF Truthy(num_examples)
                     THEN Min(num_examples, get_dataset_num_examples)
                     ELSE get_dataset_num_examples
            IN  /\ num_examples' = n
                /\ openedWith' = "hub"
                /\ IF ~streaming /\ SelectRaises(total, n)
                   THEN /\ Fail("IndexError")
                        /\ dataset' = total
                        /\ UNCHANGED outputs
                   ELSE /\ dataset' = IF streaming THEN total ELSE Select(total, n)
                        /\ outputs' = get_dataset_columns
                        /\ pc' = "loaded"
                        /\ err' = ""
    /\ UNCHANGED <<inputs, filetype, prepared, procVars, tbatch, tresult>>

\* LoadDataFromFileSystem.load
FSLoad ==
    /\ kind = "fs"
    /\ pc = "init"
    /\ LET prep == prepare_data_files(data_path)
       IN  IF prep.raised
           THEN /\ Fail(prep.err)
                /\ UNCHANGED <<dataset, num_examples, filetype, openedWith,
                               prepared, outputs>>
           ELSE /\ prepared' = prep
                /\ filetype' = prep.filetype
                /\ IF ~openOK
                   THEN \* load_dataset raises: no handle was made
                        /\ Fail("LoadError")
                        /\ UNCHANGED <<dataset, num_examples, openedWith, outputs>>
                   ELSE IF ~streaming /\ Truthy(num_examples)
                      /\ SelectRaises(total, num_examples)
                   THEN /\ Fail("IndexError")
                        /\ dataset' = total
                        /\ openedWith' = prep.filetype
                        /\ UNCHANGED <<num_examples, outputs>>
                   ELSE /\ openedWith' = prep.filetype
                        /\ dataset' = IF ~streaming /\ Truthy(num_examples)
                                      THEN Select(total, num_examples)
                                      ELSE total
                        /\ num_examples' = IF Truthy(num_examples)
                                           THEN num_examples
                                           ELSE total
                        /\ outputs' = Columns
                        /\ pc' = "loaded"
                        /\ err' = ""
    /\ UNCHANGED <<inputs, procVars, tbatch, tresult>>

\* self._dataset.select(range(self.num_examples))
DiskTruncate(len) == Select(len, num_examples)

\* _dataset holding the Distiset itself instead of a dataset.
DistisetHandle == -2

\* The configs the Distiset on disk holds: the one named "cfg".
NumConfigs == 1

\* ds[self.config] (a Distiset, when a config is given) and ds[self.split]
\* (when a split is given) raise KeyError on a name the snapshot lacks.
\* Without a config, ds[self.split] looks the split up among the
\* Distiset's configs, where it is not.
SnapshotKeyError ==
    \/ is_distiset /\ config = "absent"
    \/ split = "absent"
    \/ is_distiset /\ config = NoStr /\ split # NoStr

\* A Distiset loaded with neither config nor split is assigned to _dataset
\* as it is: a dict of configs, with neither select nor column_names.
HandleIsDistiset == is_distiset /\ config = NoStr /\ split = NoStr

\* LoadDataFromDisk.load: the snapshot, indexed by config and split when
\* given, is the source's `total` rows.  self.streaming is never read.
DiskLoad ==
    /\ kind = "disk"
    /\ pc = "init"
    /\ IF ~openOK
       THEN \* Distiset.load_from_disk / load_from_disk raises
            /\ Fail("LoadError")
            /\ UNCHANGED <<dataset, num_examples, outputs>>
       ELSE IF SnapshotKeyError
       THEN /\ Fail("KeyError")
            /\ UNCHANGED <<dataset, num_examples, outputs>>
       ELSE IF HandleIsDistiset
       THEN \* select (with a limit) or column_names (without) is missing
            /\ Fail("AttributeError")
            /\ dataset' = DistisetHandle
            /\ num_examples' = IF Truthy(num_examples) THEN num_examples
                                                        ELSE NumConfigs
            /\ UNCHANGED outputs
       ELSE IF Truthy(num_examples) /\ SelectRaises(total, num_examples)
       THEN /\ Fail("IndexError")
            /\ dataset' = total
            /\ UNCHANGED <<num_examples, outputs>>
       ELSE /\ dataset' = IF Truthy(num_examples) THEN DiskTruncate(total) ELSE total
            /\ num_examples' = IF Truthy(num_examples) THEN num_examples ELSE total
            /\ outputs' = Columns
            /\ pc' = "loaded"
            /\ err' = ""
    /\ UNCHANGED <<inputs, filetype, openedWith, prepared, procVars, tbatch, tresult>>

(***************************************************************************)
(* process(offset): a generator.  Each step below is one pass of its for   *)
(* loop, taken when the consumer asks for the next item.                   *)
(***************************************************************************)
loadVars == <<err, dataset, num_examples, filetype, openedWith, prepared, outputs>>

\* The mutant: the batch number itself is compared with the row offset.
Skipped_byBatchNumber(b) == b < offset

\* if batch_num * self.batch_size < offset: continue
Skipped(b) == b * batch_size < offset

\* The call: the body has not run yet.
ProcessStart ==
    /\ pc = "loaded"
    /\ \E k \in 0..MaxRows :
         /\ offset' = k
    /\ batch_num' = 0
    /\ num_returned_rows' = 0
    /\ yielded' = <<>>
    /\ pc' = "running"
    /\ UNCHANGED <<inputs, loadVars, tbatch, tresult>>

\* if batch_num * self.batch_size < offset: continue
ProcessSkip ==
    /\ pc = "running"
    /\ HasBatch(dataset, batch_num)
    /\ Skipped(batch_num)
    /\ batch_num' = batch_num + 1
    /\ UNCHANGED <<inputs, loadVars, pc, offset, num_returned_rows, yielded,
                   tbatch, tresult>>

\* yield transformed_batch, num_returned_rows >= self.num_examples
ProcessYield ==
    /\ pc = "running"
    /\ HasBatch(dataset, batch_num)
    /\ ~Skipped(batch_num)
    /\ LET t == transform_batch(ReadBatch(dataset, batch_num))
           n == num_returned_rows + Len(t.rows)
       IN  IF t.raised
           THEN /\ pc' = "failed"
                /\ err' = t.err
                /\ UNCHANGED <<batch_num, num_returned_rows, yielded>>
           ELSE /\ num_returned_rows' = n
                /\ yielded' = Append(yielded,
                                [rows |-> [i \in 1..Len(t.rows) |-> RowIndex(t.rows[i])],
                                 last |-> (n >= num_examples)])
                /\ batch_num' = batch_num + 1
                /\ UNCHANGED <<pc, err>>
    /\ UNCHANGED <<inputs, dataset, num_examples, filetype, openedWith, prepared,
                   outputs, offset, tbatch, tresult>>

\* The handle's iterator is exhausted: the generator returns.
ProcessEnd ==
    /\ pc = "running"
    /\ ~HasBatch(dataset, batch_num)
    /\ pc' = "exhausted"
    /\ UNCHANGED <<inputs, loadVars, procVars, tbatch, tresult>>

Next ==
    \/ HubLoad
    \/ FSLoad
    \/ DiskLoad
    \/ ProcessStart
    \/ ProcessSkip
    \/ ProcessYield
    \/ ProcessEnd

Spec == Init /\ [][Next]_vars

(***************************************************************************)
(* The path classifier on its own, over every bounded directory tree.      *)
(***************************************************************************)
InitClassify ==
    /\ streaming = FALSE
    /\ reqLimit = None
    /\ total = 0
    /\ batch_size = 1
    /\ kind = "fs"
    /\ config = NoStr
    /\ split = "train"
    /\ is_distiset = FALSE
    /\ metaOK = TRUE
    /\ openOK = TRUE
    /\ data_path \in AllPaths(MaxChildren, MaxSub)
    /\ reqFiletype = NoStr
    /\ Idle

PrepareDataFiles ==
    /\ pc = "init"
    /\ prepared' = prepare_data_files(data_path)
    /\ pc' = "classified"
    /\ UNCHANGED <<inputs, err, dataset, num_examples, filetype, openedWith,
                   outputs, procVars, tbatch, tresult>>

NextClassify == PrepareDataFiles

SpecClassify == InitClassify /\ [][NextClassify]_vars

(***************************************************************************)
(* The transposition on its own, over every bounded columnar batch,        *)
(* columns of unequal length included.                                     *)
(***************************************************************************)
InitTransform ==
    /\ streaming = FALSE
    /\ reqLimit = None
    /\ total = 0
    /\ batch_size = 1
    /\ kind = "hub"
    /\ config = NoStr
    /\ split = "train"
    /\ is_distiset = FALSE
    /\ metaOK = TRUE
    /\ openOK = TRUE
    /\ data_path = Node("data", "", "other", <<>>)
    /\ reqFiletype = NoStr
    /\ pc = "init"
    /\ err = ""
    /\ dataset = None
    /\ num_examples = reqLimit
    /\ filetype = reqFiletype
    /\ openedWith = NoStr
    /\ prepared = NotPrepared
    /\ outputs = <<>>
    /\ offset = 0
    /\ batch_num = 0
    /\ num_returned_rows = 0
    /\ yielded = <<>>
    /\ tbatch \in Batches(MaxCols, MaxColLen, MaxVal)
    /\ tresult = NotTransformed

TransformBatch ==
    /\ pc = "init"
    /\ tresult' = transform_batch(tbatch)
    /\ pc' = "transformed"
    /\ UNCHANGED <<inputs, loadVars, procVars, tbatch>>

NextTransform == TransformBatch

SpecTransform == InitTransform /\ [][NextTransform]_vars

(***************************************************************************)
(* Vocabulary of the properties.                                           *)
(***************************************************************************)
\* load() returned normally.
Opened == pc \in {"loaded", "running", "exhausted"}

CeilDiv(a, b) == (a + b - 1) \div b

\* The source indices of the rows delivered so far, in yield order.
RECURSIVE Concat(_)
Concat(ys) == IF ys = <<>> THEN <<>> ELSE Head(ys).rows \o Concat(Tail(ys))

Delivered == Concat(yielded)

LastFlags == [i \in 1..Len(yielded) |-> yielded[i].last]

Sizes == [i \in 1..Len(yielded) |-> Len(yielded[i].rows)]

\* min(requested limit, source rows), the source rows when no limit is given.
Budget == IF reqLimit = None THEN total ELSE Min(reqLimit, total)

\* The row budget is one the source can serve: it has that many rows.
Served == num_examples <= total

(***************************************************************************)
(* C1: a process(offset=K) call on an opened step with row budget R >= 1   *)
(* and 0 <= K < R, once consumed to its end, has yielded exactly one batch *)
(* flagged last, and that batch is the final one.                          *)
(***************************************************************************)
C1_ExactlyOneLastBatch ==
    (pc = "exhausted" /\ Served /\ num_examples >= 1 /\ offset < num_examples)
        => /\ yielded # <<>>
           /\ yielded[Len(yielded)].last
           /\ \A i \in 1..(Len(yielded) - 1) : ~yielded[i].last

(***************************************************************************)
(* C2: a process(offset=K) call with 0 <= K <= R, consumed to its end, has *)
(* delivered exactly R - K rows, none of them with a source index below K. *)
(***************************************************************************)
C2_ResumeDeliversTheRest ==
    (pc = "exhausted" /\ Served /\ offset <= num_examples)
        => /\ Len(Delivered) = num_examples - offset
           /\ \A i \in 1..Len(Delivered) : Delivered[i] >= offset

(***************************************************************************)
(* C3: process(offset=0), consumed to its end, has yielded ceil(R/B)       *)
(* batches, all of B rows except the final one of R - B*(ceil(R/B)-1), R   *)
(* rows in all, in streaming and in non-streaming mode; limit 5, batch     *)
(* size 2 over 10 rows gives sizes [2,2,1] flagged [F,F,T].                *)
(***************************************************************************)
C3_BatchSizing ==
    (pc = "exhausted" /\ Served /\ offset = 0)
        => LET n == CeilDiv(num_examples, batch_size)
           IN  /\ Len(yielded) = n
               /\ \A i \in 1..(Len(yielded) - 1) : Sizes[i] = batch_size
               /\ yielded # <<>> =>
                    Sizes[Len(yielded)] = num_examples - batch_size * (n - 1)
               /\ Len(Delivered) = num_examples
               /\ (reqLimit = 5 /\ batch_size = 2 /\ total = 10) =>
                    /\ Sizes = <<2, 2, 1>>
                    /\ LastFlags = <<FALSE, FALSE, TRUE>>

(***************************************************************************)
(* C4: after load() succeeded, num_examples is min(limit, source rows)     *)
(* when a limit was given (0 and limits above the source included) and the *)
(* source rows when none was given, for each of the three steps.           *)
(***************************************************************************)
C4_BudgetIsMinOfLimitAndSource ==
    Opened => num_examples = Budget

(***************************************************************************)
(* C5: after LoadDataFromFileSystem.load() with an explicit filetype, the  *)
(* filetype field and the filetype the handle was opened with are the      *)
(* explicit one, whatever the path's extension.                            *)
(***************************************************************************)
C5_ExplicitFiletypeWins ==
    (kind = "fs" /\ reqFiletype # NoStr /\ Opened)
        => /\ filetype = reqFiletype
           /\ openedWith = reqFiletype

(***************************************************************************)
(* C6: on a directory whose children are all sub-directories holding       *)
(* files, _prepare_data_files returns the mapping sub-directory -> its     *)
(* files; a flat sequence is returned only for a directory with direct     *)
(* file children, and holds exactly those.                                 *)
(***************************************************************************)
IsFileEntry(k) == k.type = "file"

DirectFiles(path) ==
    LET fs == SelectSeq(path.children, IsFileEntry)
    IN  [i \in 1..Len(fs) |-> <<path.name, fs[i].name>>]

OnlySubdirsWithFiles(path) ==
    /\ path.type = "dir"
    /\ path.children # <<>>
    /\ \A i \in 1..Len(path.children) :
         LET k == path.children[i]
         IN  /\ k.type = "dir"
             /\ k.children # <<>>
             /\ \A j \in 1..Len(k.children) : k.children[j].type = "file"

SubdirMapping(path) ==
    [i \in 1..Len(path.children) |->
        [key |-> <<path.name, path.children[i].name>>,
         files |-> [j \in 1..Len(path.children[i].children) |->
                      <<path.name, path.children[i].name,
                        path.children[i].children[j].name>>]]]

C6_SubdirsGiveMapping ==
    (pc = "classified" /\ data_path.type = "dir")
        => /\ OnlySubdirsWithFiles(data_path) =>
                /\ ~prepared.raised
                /\ prepared.shape = "dict"
                /\ prepared.map = SubdirMapping(data_path)
           /\ prepared.shape = "list" =>
                /\ DirectFiles(data_path) # <<>>
                /\ prepared.seq = DirectFiles(data_path)

(***************************************************************************)
(* C7: LoadDataFromHub.load() with the metadata query failing: when the    *)
(* dataset can be opened, load() returns normally with num_examples =      *)
(* min(limit, rows of the handle) and the handle's columns; when it cannot,*)
(* load() raises.                                                          *)
(***************************************************************************)
C7_MetadataFallback ==
    (kind = "hub" /\ pc # "init" /\ ~metaOK)
        => IF openOK
           THEN /\ Opened
                /\ num_examples = Budget
                /\ outputs = Columns
           ELSE pc = "failed"

(***************************************************************************)
(* C8: _transform_batch on a batch whose columns differ in length raises:  *)
(* no row list is returned.                                                *)
(***************************************************************************)
UnequalColumns(batch) ==
    \E j, k \in 1..Len(batch) : Len(batch[j].values) # Len(batch[k].values)

C8_UnequalColumnsRaise ==
    (pc = "transformed" /\ UnequalColumns(tbatch)) => tresult.raised

(***************************************************************************)
(* C9: LoadDataFromDisk.load() with streaming = True, on a snapshot that   *)
(* can be read as a dataset, raises UnsupportedMode: no handle is acquired *)
(* and no row budget is resolved.                                          *)
(***************************************************************************)
C9_StreamingOnDiskRaises ==
    (kind = "disk" /\ streaming /\ pc # "init"
       /\ openOK /\ ~SnapshotKeyError /\ ~HandleIsDistiset)
        => /\ pc = "failed"
           /\ err = "UnsupportedMode"
           /\ dataset = None
           /\ num_examples = reqLimit

(***************************************************************************)
(* C10: within one process() call no batch is yielded after a batch        *)
(* flagged last, also when the handle holds rows beyond the row budget     *)
(* (streaming with a limit below the source's rows).                       *)
(***************************************************************************)
C10_NothingAfterLast ==
    \A i \in 1..(Len(yielded) - 1) : ~yielded[i].last

(***************************************************************************)
(* C11: the rows a process(offset=K) call has delivered, in yield order,   *)
(* are the handle's rows from index B*ceil(K/B) on, one after the other    *)
(* with none repeated, left out or out of order; every yielded batch       *)
(* starts at a multiple of B and is a full batch unless it is the handle's *)
(* final one; a call consumed to its end has delivered the handle's rows   *)
(* up to its last; and no batch flagged not-last follows one flagged last. *)
(***************************************************************************)
FirstDelivered == batch_size * CeilDiv(offset, batch_size)

C11_ContiguousRunFromBatchBoundary ==
    (pc \in {"running", "exhausted"})
        => /\ \A i \in 1..Len(Delivered) : Delivered[i] = FirstDelivered + i - 1
           /\ \A i \in 1..Len(yielded) :
                /\ yielded[i].rows # <<>>
                /\ yielded[i].rows[1] % batch_size = 0
                /\ i < Len(yielded) => Len(yielded[i].rows) = batch_size
           /\ \A i, j \in 1..Len(yielded) :
                (i < j /\ yielded[i].last) => yielded[j].last
           /\ pc = "exhausted" =>
                Len(Delivered) = (IF dataset > FirstDelivered
                                  THEN dataset - FirstDelivered ELSE 0)

\* A call resumed at an offset inside a batch, consumed to its end, that
\* yielded several batches, a short final one and flagged ones among them.
C11_Witness ==
    /\ pc = "exhausted"
    /\ offset % batch_size # 0
    /\ Len(yielded) >= 3
    /\ Len(yielded[Len(yielded)].rows) < batch_size
    /\ yielded[Len(yielded) - 1].last
    /\ ~yielded[1].last

====
